---- MODULE Spec2Model ----
(***************************************************************************)
(* Model of src/src/pow.rs (num-traits): the Pow operator trait and its    *)
(* pow_impl! bindings, and the two exponentiation-by-squaring functions    *)
(* pow and checked_pow.                                                    *)
(*                                                                         *)
(* A call is a small state machine: `call` holds the arguments, `frame`    *)
(* the local variables of the running function (base, exp, acc), the      *)
(* program position pc and the returned value.  Two fields of the frame    *)
(* are instrumentation: mults counts the multiplications performed and     *)
(* ovf counts those whose exact product left the type's range.             *)
(*                                                                         *)
(* The base types modelled are u8, i8 and i16 with wrap-around             *)
(* multiplication (Wrapping<T>, and the primitive types as built without   *)
(* overflow checks); checked_pow uses the checked multiplication.          *)
(***************************************************************************)
EXTENDS Integers, Sequences, FiniteSets, TLC

VARIABLES call, frame

vars == <<call, frame>>

(***************************************************************************)
(* Bounds of the model.                                                    *)
(***************************************************************************)
\* Exponents passed by a caller range over 0..MaxExp.
MaxExp == 17
\* The 16-bit bases explored are -MaxBase16..MaxBase16 and the two extremes
\* (the 8-bit types are explored over their whole range).
MaxBase16 == 33
\* Exponents of the second call when a result is fed back as a base.
MaxExp2 == 3
\* The bases given to the operator form are -MaxOpBase..MaxOpBase, as far as
\* the type holds them, and the type's two extremes.
MaxOpBase == 5

(***************************************************************************)
(* The numeric types T and their arithmetic.                               *)
(***************************************************************************)
Types == {"u8", "i8", "i16"}

Bits(t) == CASE t = "u8" -> 8 [] t = "i8" -> 8 [] t = "i16" -> 16

Signed(t) == t \in {"i8", "i16"}

MinVal(t) == IF Signed(t) THEN -(2^(Bits(t) - 1)) ELSE 0

MaxVal(t) == IF Signed(t) THEN 2^(Bits(t) - 1) - 1 ELSE 2^Bits(t) - 1

InRange(t, n) == MinVal(t) <= n /\ n <= MaxVal(t)

\* Two's-complement reduction of an exact integer into the range of t.
Wrap(t, n) == ((n - MinVal(t)) % (2^Bits(t))) + MinVal(t)

\* T::one()
One == 1

\* Mul for T: the product, wrapped into T.
Mul(t, x, y) == Wrap(t, x * y)

Some(v) == [some |-> TRUE, val |-> v]

None == [some |-> FALSE, val |-> 0]

\* CheckedMul::checked_mul: the product when it is in range, None otherwise.
CheckedMul(t, x, y) == IF InRange(t, x * y) THEN Some(x * y) ELSE None

\* Instrumentation: 1 when the exact product of x and y leaves the range of t.
Overflows(t, x, y) == IF InRange(t, x * y) THEN 0 ELSE 1

(***************************************************************************)
(* pow (lines 148-166), one definition per program position.               *)
(***************************************************************************)
Enter(b, e) ==
    [pc |-> "entry", base |-> b, exp |-> e, acc |-> 0, ret |-> None,
     mults |-> 0, ovf |-> 0]

Idle ==
    [pc |-> "idle", base |-> 0, exp |-> 0, acc |-> 0, ret |-> None,
     mults |-> 0, ovf |-> 0]

\* Variant of PowEntry: the zero exponent answers with the base.
PowEntry_ReturnsBase(t, f) ==
    IF f.exp = 0
    THEN [f EXCEPT !.pc = "ret", !.ret = Some(f.base)]
    ELSE [f EXCEPT !.pc = "strip"]

\* if exp == 0 { return T::one() }
PowEntry(t, f) ==
    IF f.exp = 0
    THEN [f EXCEPT !.pc = "ret", !.ret = Some(One)]
    ELSE [f EXCEPT !.pc = "strip"]

\* while exp & 1 == 0
PowStripTest(t, f) ==
    IF f.exp % 2 = 0
    THEN [f EXCEPT !.pc = "strip_mul"]
    ELSE [f EXCEPT !.pc = "one"]

\* base = base.clone() * base; exp >>= 1;
PowStripBody(t, f) ==
    [f EXCEPT !.pc = "strip",
              !.base = Mul(t, f.base, f.base),
              !.exp = f.exp \div 2,
              !.mults = f.mults + 1,
              !.ovf = f.ovf + Overflows(t, f.base, f.base)]

\* Variant of PowOne: the accumulator starts at one, as in the textbook loop.
PowOne_AccOne(t, f) ==
    IF f.exp = 1
    THEN [f EXCEPT !.pc = "ret", !.ret = Some(f.base)]
    ELSE [f EXCEPT !.pc = "loop", !.acc = One]

\* if exp == 1 { return base }   let mut acc = base.clone();
PowOne(t, f) ==
    IF f.exp = 1
    THEN [f EXCEPT !.pc = "ret", !.ret = Some(f.base)]
    ELSE [f EXCEPT !.pc = "loop", !.acc = f.base]

\* Variant of PowLoopTest: the loop runs while exp > 0.
PowLoopTest_ToZero(t, f) ==
    IF f.exp > 0
    THEN [f EXCEPT !.pc = "loop_sq"]
    ELSE [f EXCEPT !.pc = "ret", !.ret = Some(f.acc)]

\* while exp > 1  ...  acc
PowLoopTest(t, f) ==
    IF f.exp > 1
    THEN [f EXCEPT !.pc = "loop_sq"]
    ELSE [f EXCEPT !.pc = "ret", !.ret = Some(f.acc)]

\* Variant of PowLoopSquare: the exponent is halved, the base not squared.
PowLoopSquare_NoSquare(t, f) ==
    [f EXCEPT !.pc = "loop_odd", !.exp = f.exp \div 2]

\* Variant of PowLoopSquare: the exponent is decremented instead of halved.
PowLoopSquare_Decrement(t, f) ==
    [f EXCEPT !.pc = "loop_odd",
              !.exp = f.exp - 1,
              !.base = Mul(t, f.base, f.base),
              !.mults = f.mults + 1,
              !.ovf = f.ovf + Overflows(t, f.base, f.base)]

\* exp >>= 1; base = base.clone() * base;
PowLoopSquare(t, f) ==
    [f EXCEPT !.pc = "loop_odd",
              !.exp = f.exp \div 2,
              !.base = Mul(t, f.base, f.base),
              !.mults = f.mults + 1,
              !.ovf = f.ovf + Overflows(t, f.base, f.base)]

\* Variant of PowLoopAcc: the low bit of exp is not tested.
PowLoopAcc_Always(t, f) ==
    [f EXCEPT !.pc = "loop",
              !.acc = Mul(t, f.acc, f.base),
              !.mults = f.mults + 1,
              !.ovf = f.ovf + Overflows(t, f.acc, f.base)]

\* if exp & 1 == 1 { acc = acc * base.clone(); }
PowLoopAcc(t, f) ==
    IF f.exp % 2 = 1
    THEN [f EXCEPT !.pc = "loop",
                   !.acc = Mul(t, f.acc, f.base),
                   !.mults = f.mults + 1,
                   !.ovf = f.ovf + Overflows(t, f.acc, f.base)]
    ELSE [f EXCEPT !.pc = "loop"]

PowStep(t, f) ==
    CASE f.pc = "entry"     -> PowEntry(t, f)
      [] f.pc = "strip"     -> PowStripTest(t, f)
      [] f.pc = "strip_mul" -> PowStripBody(t, f)
      [] f.pc = "one"       -> PowOne(t, f)
      [] f.pc = "loop"      -> PowLoopTest(t, f)
      [] f.pc = "loop_sq"   -> PowLoopSquare(t, f)
      [] f.pc = "loop_odd"  -> PowLoopAcc(t, f)

RECURSIVE PowRun(_, _)
PowRun(t, f) == IF f.pc = "ret" THEN f ELSE PowRun(t, PowStep(t, f))

\* The value pow(base, exp) returns for a base of type t.
pow(t, b, e) == PowRun(t, Enter(b, e)).ret.val

(***************************************************************************)
(* checked_pow (lines 182-206).  optry! returns None from the function as  *)
(* soon as a checked multiplication yields None.                           *)
(***************************************************************************)
\* if exp == 0 { return Some(T::one()) }
CheckedEntry(t, f) ==
    IF f.exp = 0
    THEN [f EXCEPT !.pc = "ret", !.ret = Some(One)]
    ELSE [f EXCEPT !.pc = "strip"]

\* Variant of CheckedStripTest: the test of the low bit is inverted.
CheckedStripTest_Inverted(t, f) ==
    IF f.exp % 2 = 1
    THEN [f EXCEPT !.pc = "strip_mul"]
    ELSE [f EXCEPT !.pc = "one"]

\* while exp & 1 == 0
CheckedStripTest(t, f) ==
    IF f.exp % 2 = 0
    THEN [f EXCEPT !.pc = "strip_mul"]
    ELSE [f EXCEPT !.pc = "one"]

\* base = optry!(base.checked_mul(&base)); exp >>= 1;
CheckedStripBody(t, f) ==
    LET m == CheckedMul(t, f.base, f.base)
        g == [f EXCEPT !.mults = f.mults + 1,
                       !.ovf = f.ovf + Overflows(t, f.base, f.base)]
    IN  IF m.some
        THEN [g EXCEPT !.pc = "strip", !.base = m.val, !.exp = f.exp \div 2]
        ELSE [g EXCEPT !.pc = "ret", !.ret = None]

\* if exp == 1 { return Some(base) }   let mut acc = base.clone();
CheckedOne(t, f) ==
    IF f.exp = 1
    THEN [f EXCEPT !.pc = "ret", !.ret = Some(f.base)]
    ELSE [f EXCEPT !.pc = "loop", !.acc = f.base]

\* Variant of CheckedLoopTest: the loop runs while exp > 0, squaring the base
\* once more than the result needs.
CheckedLoopTest_ToZero(t, f) ==
    IF f.exp > 0
    THEN [f EXCEPT !.pc = "loop_sq"]
    ELSE [f EXCEPT !.pc = "ret", !.ret = Some(f.acc)]

\* while exp > 1  ...  Some(acc)
CheckedLoopTest(t, f) ==
    IF f.exp > 1
    THEN [f EXCEPT !.pc = "loop_sq"]
    ELSE [f EXCEPT !.pc = "ret", !.ret = Some(f.acc)]

\* exp >>= 1; base = optry!(base.checked_mul(&base));
CheckedLoopSquare(t, f) ==
    LET m == CheckedMul(t, f.base, f.base)
        g == [f EXCEPT !.exp = f.exp \div 2,
                       !.mults = f.mults + 1,
                       !.ovf = f.ovf + Overflows(t, f.base, f.base)]
    IN  IF m.some
        THEN [g EXCEPT !.pc = "loop_odd", !.base = m.val]
        ELSE [g EXCEPT !.pc = "ret", !.ret = None]

\* Variant of CheckedLoopAcc: the accumulation multiplies unchecked.
CheckedLoopAcc_Unchecked(t, f) ==
    IF f.exp % 2 = 1
    THEN [f EXCEPT !.pc = "loop",
                   !.acc = Mul(t, f.acc, f.base),
                   !.mults = f.mults + 1,
                   !.ovf = f.ovf + Overflows(t, f.acc, f.base)]
    ELSE [f EXCEPT !.pc = "loop"]

\* if exp & 1 == 1 { acc = optry!(acc.checked_mul(&base)); }
CheckedLoopAcc(t, f) ==
    IF f.exp % 2 = 1
    THEN LET m == CheckedMul(t, f.acc, f.base)
             g == [f EXCEPT !.mults = f.mults + 1,
                            !.ovf = f.ovf + Overflows(t, f.acc, f.base)]
         IN  IF m.some
             THEN [g EXCEPT !.pc = "loop", !.acc = m.val]
             ELSE [g EXCEPT !.pc = "ret", !.ret = None]
    ELSE [f EXCEPT !.pc = "loop"]

CheckedPowStep(t, f) ==
    CASE f.pc = "entry"     -> CheckedEntry(t, f)
      [] f.pc = "strip"     -> CheckedStripTest(t, f)
      [] f.pc = "strip_mul" -> CheckedStripBody(t, f)
      [] f.pc = "one"       -> CheckedOne(t, f)
      [] f.pc = "loop"      -> CheckedLoopTest(t, f)
      [] f.pc = "loop_sq"   -> CheckedLoopSquare(t, f)
      [] f.pc = "loop_odd"  -> CheckedLoopAcc(t, f)

RECURSIVE CheckedPowRun(_, _)
CheckedPowRun(t, f) ==
    IF f.pc = "ret" THEN f ELSE CheckedPowRun(t, CheckedPowStep(t, f))

\* The Option checked_pow(base, exp) returns for a base of type t.
checked_pow(t, b, e) == CheckedPowRun(t, Enter(b, e)).ret

(***************************************************************************)
(* The Pow trait and the pow_impl! bindings (lines 6-115).                 *)
(***************************************************************************)
\* The exponent types RHS the integer bindings accept.
RhsTypes == {"u8", "u16", "u32", "usize"}

\* Width of an exponent type (usize as on a 64-bit target).
RhsBits(r) == CASE r = "u8" -> 8 [] r = "u16" -> 16 [] r = "u32" -> 32
                [] r = "usize" -> 64

\* `p as to` for p of the unsigned type from: zero-extension keeps the value,
\* a narrowing cast keeps the low bits.
Cast(from, to, p) ==
    IF RhsBits(to) >= RhsBits(from) THEN p ELSE p % (2^RhsBits(to))

\* A binding: the base type, whether it is wrapped in Wrapping<..>, and RHS.
Bindings == [t : Types, wrapping : BOOLEAN, rhs : RhsTypes]

\* The inherent integer pow of the primitive types (x.pow(p), u8::pow, ...):
\* the product of p factors x, wrapping (the factors are grouped in halves,
\* which keeps the evaluation shallow and leaves the product unchanged).
RECURSIVE NativePow(_, _, _)
NativePow(t, x, p) ==
    IF p = 0 THEN 1
    ELSE IF p = 1 THEN x
    ELSE Wrap(t, NativePow(t, x, p \div 2) * NativePow(t, x, p - (p \div 2)))

\* The default method of pow_impl!($t, $rhs): |x, p| pow(x, p as usize).
\* The closure enters pow, which then runs to its return.
GenericMethod(bnd, x, p) == Enter(x, Cast(bnd.rhs, "usize", p))

\* A frame that has returned v.
Returned(v) ==
    [pc |-> "ret", base |-> 0, exp |-> 0, acc |-> 0, ret |-> Some(v),
     mults |-> 0, ovf |-> 0]

\* Variant of NativeMethod: the exponent is cast to u8 on the way.
NativeMethod_NarrowCast(bnd, x, p) ==
    Returned(NativePow(bnd.t, x, Cast(bnd.rhs, "u8", p)))

\* The closures of lines 66-105: |x, p| x.pow(p as u32), and $t::pow for u32.
\* The native pow is one step of the caller.
NativeMethod(bnd, x, p) ==
    Returned(NativePow(bnd.t, x, Cast(bnd.rhs, "u32", p)))

\* $method of a binding: the primitive types take the native pow for u8, u16
\* and u32 exponents; usize exponents and all Wrapping bindings take pow.
Method(bnd, x, p) ==
    IF ~bnd.wrapping /\ bnd.rhs \in {"u8", "u16", "u32"}
    THEN NativeMethod(bnd, x, p)
    ELSE GenericMethod(bnd, x, p)

\* A shared reference to a value, and its dereference (a copy of the value).
Ref(v) == <<v>>

Deref(r) == r[1]

\* The four calling shapes of the macro's third arm.
Shapes == {"T_R", "T_refR", "refT_R", "refT_refR"}

\* The operand as the caller holds it for a shape.
SelfArg(shape, x) == IF shape \in {"refT_R", "refT_refR"} THEN Ref(x) ELSE x

RhsArg(shape, p) == IF shape \in {"T_refR", "refT_refR"} THEN Ref(p) ELSE p

\* impl Pow<$rhs> for $t and its three by-reference variants.
pow_impl(bnd, shape, self, rhs) ==
    CASE shape = "T_R"       -> Method(bnd, self, rhs)
      [] shape = "T_refR"    -> Method(bnd, self, Deref(rhs))
      [] shape = "refT_R"    -> Method(bnd, Deref(self), rhs)
      [] shape = "refT_refR" -> Method(bnd, Deref(self), Deref(rhs))

(***************************************************************************)
(* Inputs.                                                                 *)
(***************************************************************************)
Bases(t) ==
    IF Bits(t) = 8
    THEN MinVal(t)..MaxVal(t)
    ELSE ((-MaxBase16)..MaxBase16) \cup {MinVal(t), MaxVal(t)}

OpBases(t) ==
    {x \in (-MaxOpBase)..MaxOpBase : InRange(t, x)} \cup {MinVal(t), MaxVal(t)}

Exps == 0..MaxExp

\* Exponents given to the operator form: Exps, and values around the top of
\* u8 that only the wider exponent types hold.
OpExps(r) == Exps \cup (IF r = "u8" THEN {255} ELSE {255, 256, 257})

NoBinding == [t |-> "u8", wrapping |-> FALSE, rhs |-> "u8"]

NoInner == [some |-> FALSE, b |-> 0, e |-> 0, ovf |-> 0]

NoCall ==
    [fn |-> "none", ty |-> "u8", b |-> 0, e |-> 0, bnd |-> NoBinding,
     shape |-> "T_R", inner |-> NoInner]

Init ==
    /\ call = NoCall
    /\ frame = Idle

\* A caller invokes pow(base, exp).
CallPow ==
    /\ frame.pc = "idle"
    /\ \E t \in Types : \E b \in Bases(t) : \E e \in Exps :
          /\ call' = [NoCall EXCEPT !.fn = "pow", !.ty = t, !.b = b, !.e = e]
          /\ frame' = Enter(b, e)

\* A caller invokes checked_pow(base, exp).
CallCheckedPow ==
    /\ frame.pc = "idle"
    /\ \E t \in Types : \E b \in Bases(t) : \E e \in Exps :
          /\ call' = [NoCall EXCEPT !.fn = "checked_pow", !.ty = t, !.b = b,
                                    !.e = e]
          /\ frame' = Enter(b, e)

\* A caller raises the value pow returned to a further power:
\* pow(pow(b, e1), e2).
CallPowOnResult ==
    /\ call.fn = "pow"
    /\ frame.pc = "ret"
    /\ ~call.inner.some
    /\ \E e2 \in 0..MaxExp2 :
          /\ call' = [call EXCEPT !.b = frame.ret.val, !.e = e2,
                          !.inner = [some |-> TRUE, b |-> call.b,
                                     e |-> call.e, ovf |-> frame.ovf]]
          /\ frame' = Enter(frame.ret.val, e2)

\* A caller invokes Pow::pow(self, rhs) through one binding, in one shape.
CallPowTrait ==
    /\ frame.pc = "idle"
    /\ \E bnd \in Bindings : \E shape \in Shapes :
       \E x \in OpBases(bnd.t) : \E p \in OpExps(bnd.rhs) :
          /\ call' = [NoCall EXCEPT !.fn = "Pow::pow", !.ty = bnd.t, !.b = x,
                                    !.e = p, !.bnd = bnd, !.shape = shape]
          /\ frame' = pow_impl(bnd, shape, SelfArg(shape, x), RhsArg(shape, p))

\* One step of the running pow, called directly or by a binding.
StepPow ==
    /\ call.fn \in {"pow", "Pow::pow"}
    /\ frame.pc \notin {"idle", "ret"}
    /\ frame' = PowStep(call.ty, frame)
    /\ UNCHANGED call

\* One step of the running checked_pow.
StepCheckedPow ==
    /\ call.fn = "checked_pow"
    /\ frame.pc \notin {"idle", "ret"}
    /\ frame' = CheckedPowStep(call.ty, frame)
    /\ UNCHANGED call

\* The caller takes the returned value; nothing outlives the call.
Return ==
    /\ frame.pc = "ret"
    /\ call' = NoCall
    /\ frame' = Idle

Next ==
    \/ CallPow
    \/ CallCheckedPow
    \/ CallPowOnResult
    \/ CallPowTrait
    \/ StepPow
    \/ StepCheckedPow
    \/ Return

Spec == Init /\ [][Next]_vars

\* The running function is scheduled until it returns.
FairSpec == Spec /\ WF_vars(StepPow) /\ WF_vars(StepCheckedPow)

TypeOK == frame.pc \in {"idle", "entry", "strip", "strip_mul", "one", "loop",
                        "loop_sq", "loop_odd", "ret"}

(***************************************************************************)
(* Reference notions the properties are stated with.                       *)
(***************************************************************************)
\* b multiplied e times, one factor at a time, in the arithmetic of t.
RECURSIVE IterProd(_, _, _)
IterProd(t, b, e) == IF e = 0 THEN 1 ELSE Wrap(t, IterProd(t, b, e - 1) * b)

\* No type of the model holds a value of magnitude above Limit.
Limit == 2^15

\* The exact integer b^e, or big once its magnitude exceeds Limit (from then
\* on it only grows, since a magnitude above 1 is needed to get there).
RECURSIVE ExactPow(_, _)
ExactPow(b, e) ==
    IF e = 0 THEN [big |-> FALSE, val |-> 1]
    ELSE LET p == ExactPow(b, e - 1)
         IN  IF p.big THEN p
             ELSE IF p.val * b > Limit \/ p.val * b < -Limit
                  THEN [big |-> TRUE, val |-> 0]
                  ELSE [big |-> FALSE, val |-> p.val * b]

\* The exact b^e is a value of t.
Fits(t, b, e) == ~ExactPow(b, e).big /\ InRange(t, ExactPow(b, e).val)

\* floor(log2(n)) for n >= 1.
RECURSIVE Log2(_)
Log2(n) == IF n <= 1 THEN 0 ELSE 1 + Log2(n \div 2)

InPow == call.fn = "pow"

InChecked == call.fn = "checked_pow"

(***************************************************************************)
(* Properties.                                                             *)
(***************************************************************************)
\* C1: pow(b, e) returns the product of e factors b (1 for e = 0) in the
\* wrap-around arithmetic of the type: squaring agrees with multiplying one
\* factor at a time.
C1_PowIsIteratedProduct ==
    (InPow /\ frame.pc = "ret")
        => /\ frame.ret = Some(IterProd(call.ty, call.b, call.e))
           /\ (call.ty = "i8" /\ call.b = 2 /\ call.e = 4) => frame.ret = Some(16)
           /\ (call.ty = "u8" /\ call.b = 6 /\ call.e = 3) => frame.ret = Some(216)

\* pow(7i8, 13) has returned after multiplications that wrapped.
C1_Witness ==
    /\ InPow /\ frame.pc = "ret" /\ ~call.inner.some
    /\ call.ty = "i8" /\ call.b = 7 /\ call.e = 13
    /\ frame.ovf > 0
    /\ frame.ret.val = IterProd("i8", 7, 13)

\* C2: checked_pow returns Some(exact b^e) when none of its multiplications
\* leaves the range, and returns None at the first one that does: that
\* multiplication is the last one performed, and no value is returned.
C2_CheckedExactOrNone ==
    InChecked =>
        /\ frame.ovf > 0 => (frame.pc = "ret" /\ frame.ret = None /\ frame.ovf = 1)
        /\ (frame.pc = "ret" /\ frame.ovf = 0) =>
              /\ ~ExactPow(call.b, call.e).big
              /\ frame.ret = Some(ExactPow(call.b, call.e).val)

\* checked_pow(7i8, 8) has returned None at its second squaring, of three.
C2_Witness ==
    /\ InChecked /\ frame.pc = "ret"
    /\ call.ty = "i8" /\ call.b = 7 /\ call.e = 8
    /\ frame.ret = None /\ frame.mults = 2 /\ frame.ovf = 1

\* C3: for every binding and each of the four calling shapes, Pow::pow(b, e)
\* returns what the free function pow(b, e as usize) returns.
C3_TraitAgreesWithPow ==
    (call.fn = "Pow::pow" /\ frame.pc = "ret")
        => frame.ret = Some(pow(call.ty, call.b,
                                Cast(call.bnd.rhs, "usize", call.e)))

\* A primitive binding with a u16 exponent above u8's range, both operands
\* by reference, has returned.
C3_Witness ==
    /\ call.fn = "Pow::pow" /\ frame.pc = "ret"
    /\ ~call.bnd.wrapping /\ call.bnd.rhs = "u16" /\ call.bnd.t = "i16"
    /\ call.shape = "refT_refR"
    /\ call.b = -3 /\ call.e = 257
    /\ frame.ret.val = pow("i16", -3, 257)

\* C4: pow(b, 0) returns 1 for every base, 0 included, and multiplies
\* nothing.
C4_PowZeroIsOne ==
    (InPow /\ call.e = 0)
        => /\ frame.mults = 0
           /\ frame.pc = "ret" => frame.ret = Some(1)

\* pow(0u8, 0) has returned 1.
C4_Witness ==
    /\ InPow /\ frame.pc = "ret"
    /\ call.ty = "u8" /\ call.b = 0 /\ call.e = 0
    /\ frame.ret = Some(1)

\* C5: for the exponents 0 and 1 checked_pow multiplies nothing and never
\* returns None: checked_pow(b, 0) = Some(1), checked_pow(b, 1) = Some(b).
C5_CheckedZeroOne ==
    (InChecked /\ call.e \in {0, 1})
        => /\ frame.mults = 0
           /\ frame.pc = "ret"
                 => frame.ret = (IF call.e = 0 THEN Some(1) ELSE Some(call.b))

\* checked_pow(i16::MIN, 1) has returned Some(i16::MIN).
C5_Witness ==
    /\ InChecked /\ frame.pc = "ret"
    /\ call.ty = "i16" /\ call.b = MinVal("i16") /\ call.e = 1
    /\ frame.ret = Some(MinVal("i16"))

\* The multiplications of pow(b, e), run to its return, that left the range.
PowOverflows(t, b, e) == PowRun(t, Enter(b, e)).ovf

\* C6: when no multiplication overflows in pow(b, e1), in pow(pow(b, e1), e2)
\* and in pow(b, e1 * e2), then pow(pow(b, e1), e2) = pow(b, e1 * e2).
C6_PowOfPow ==
    (/\ InPow /\ frame.pc = "ret" /\ call.inner.some
     /\ call.inner.ovf = 0 /\ frame.ovf = 0
     /\ PowOverflows(call.ty, call.inner.b, call.inner.e * call.e) = 0)
        => frame.ret.val = pow(call.ty, call.inner.b, call.inner.e * call.e)

\* pow(pow(-2i16, 5), 3) has returned (-2)^15 = i16::MIN, nothing having
\* overflowed.
C6_Witness ==
    /\ InPow /\ frame.pc = "ret" /\ call.inner.some
    /\ call.ty = "i16" /\ call.inner.b = -2 /\ call.inner.e = 5 /\ call.e = 3
    /\ call.b = -32
    /\ call.inner.ovf = 0 /\ frame.ovf = 0
    /\ PowOverflows("i16", -2, 15) = 0
    /\ frame.ret.val = MinVal("i16")

\* C7: for e >= 1, pow performs at most 2 * floor(log2(e)) + 1
\* multiplications (squarings and accumulations together).
C7_MultiplicationCount ==
    (InPow /\ call.e >= 1) => frame.mults <= 2 * Log2(call.e) + 1

\* pow(b, 15) has returned after 3 squarings and 3 accumulations.
C7_Witness ==
    /\ InPow /\ frame.pc = "ret" /\ call.e = 15
    /\ frame.mults = 6

\* C8: every call of pow and checked_pow returns: the stripping loop is
\* never at exp = 0, every iteration of either loop that goes on lowers exp
\* and leaves it at least 1, and a call that was entered reaches its return.
C8_Terminates ==
    /\ []((InPow \/ InChecked) /\ frame.pc \in {"strip", "strip_mul"}
             => frame.exp >= 1)
    /\ [][((InPow \/ InChecked) /\ frame.pc \in {"strip_mul", "loop_sq"}
             /\ frame'.pc # "ret")
             => (frame'.exp < frame.exp /\ frame'.exp >= 1)]_vars
    /\ (frame.pc = "entry") ~> (frame.pc = "ret")

\* checked_pow(1, 16) has gone through the stripping loop four times and
\* is at its head with exp = 1.
C8_Witness ==
    /\ InChecked /\ call.b = 1 /\ call.e = 16
    /\ frame.pc = "strip" /\ frame.exp = 1 /\ frame.mults = 4

\* C9: checked_pow(b, e) returns None exactly when the exact b^e is not a
\* value of the type (and Some(b^e) otherwise).
C9_NoSpuriousNone ==
    (InChecked /\ frame.pc = "ret")
        => /\ frame.ret.some <=> Fits(call.ty, call.b, call.e)
           /\ frame.ret.some => frame.ret.val = ExactPow(call.b, call.e).val

\* checked_pow(-32i16, 3) has returned Some(i16::MIN): the result sits on
\* the edge of the range.
C9_Witness ==
    /\ InChecked /\ frame.pc = "ret"
    /\ call.ty = "i16" /\ call.b = -32 /\ call.e = 3
    /\ frame.ret = Some(MinVal("i16"))

\* C10: loop invariants of pow(b, e), e >= 1, in the arithmetic of the type:
\* at the head of the stripping loop exp >= 1 and base^exp = b^e; at the head
\* of the accumulation loop, its exit included,
\* acc * base^(exp - exp mod 2) = b^e, and at the exit exp = 1 and acc = b^e.
C10_LoopInvariant ==
    (InPow /\ call.e >= 1) =>
        LET t == call.ty
            goal == IterProd(t, call.b, call.e)
        IN  /\ frame.pc = "strip" =>
                  /\ frame.exp >= 1
                  /\ IterProd(t, frame.base, frame.exp) = goal
            /\ frame.pc = "loop" =>
                  /\ Mul(t, frame.acc,
                         IterProd(t, frame.base, frame.exp - (frame.exp % 2)))
                       = goal
                  /\ frame.exp <= 1 => (frame.exp = 1 /\ frame.acc = goal)

\* pow(b, 13) with a wrapped square is at the head of the accumulation loop
\* with exp = 6: an even exponent in mid-loop.
C10_Witness ==
    /\ InPow /\ call.e = 13 /\ call.ty = "u8" /\ call.b = 251
    /\ frame.pc = "loop" /\ frame.exp = 6 /\ frame.ovf > 0
====
